---- MODULE Spec2Model ----
(***************************************************************************)
(* mkpatch: generation of a THOR patch archive from a patch definition.    *)
(* Model of src/mkpatch/src/main.rs: main, init_logger,                    *)
(* generate_patch_from_definition and append_directory_update, run against *)
(* a small filesystem.  The manifest parser (mod patch_definition) and the *)
(* archive builder (gruf::thor::ThorArchiveBuilder) are not part of the    *)
(* sources at hand; they are modelled from their specification.            *)
(***************************************************************************)
EXTENDS Integers, Sequences, FiniteSets, TLC

VARIABLES
    manifest,         \* patch_definition.entries: sequence of [relative_path, is_removed]
    use_grf_merging,  \* patch_definition.use_grf_merging
    target_grf_name,  \* patch_definition.target_grf_name: "absent", "" or a name
    verbose,          \* the --verbose flag
    xKind,            \* what the data directory holds at "x"
    rev,              \* the order in which the filesystem lists a directory
    pc,               \* position of the program
    i,                \* index of the manifest entry the for loop is at
    walk,             \* the pending entries of the WalkDir iterator (a stack)
    outputCreated,    \* File::create(output_path) has created the output file
    session,          \* the archive builder: "none", "open", "dropped"
    calls,            \* the encoder calls made (append_file_update, append_file_removal, finish), in order
    toc,              \* the builder's table of contents
    cursor,           \* the builder's write cursor
    fsAccess,         \* filesystem accesses made while resolving entries
    err,              \* the error generation ended with
    reported,         \* what the process has written to its log / stderr
    successPrinted,   \* the "Patch generated at" line was printed
    exitCode          \* exit status of the process, -1 while running

vars == <<manifest, use_grf_merging, target_grf_name, verbose, xKind, rev, pc, i,
          walk, outputCreated, session, calls, toc, cursor, fsAccess,
          err, reported, successPrinted, exitCode>>

defVars == <<manifest, use_grf_merging, target_grf_name, verbose, xKind, rev>>

\* Longest manifest explored.
MaxEntries == 2

-----------------------------------------------------------------------------
(* The filesystem.  The process runs in "/", the data directory is "data". *)

NoNode == "none"

Nodes == {"/", "/s", "/o", "/o/h", "/data", "/data/a", "/data/x", "/data/d",
          "/data/d/f", "/data/d/l", "/data/d/s", "/data/d/s/g", "/data/d/k"}

Name(n) ==
    CASE n = "/s" -> "s"
      [] n = "/o" -> "o"
      [] n = "/o/h" -> "h"
      [] n = "/data" -> "data"
      [] n = "/data/a" -> "a"
      [] n = "/data/x" -> "x"
      [] n = "/data/d" -> "d"
      [] n = "/data/d/f" -> "f"
      [] n = "/data/d/l" -> "l"
      [] n = "/data/d/s" -> "s"
      [] n = "/data/d/s/g" -> "g"
      [] n = "/data/d/k" -> "k"
      [] OTHER -> "/"

Parent(n) ==
    CASE n \in {"/s", "/o", "/data"} -> "/"
      [] n = "/o/h" -> "/o"
      [] n \in {"/data/a", "/data/x", "/data/d"} -> "/data"
      [] n \in {"/data/d/f", "/data/d/l", "/data/d/s", "/data/d/k"} -> "/data/d"
      [] n = "/data/d/s/g" -> "/data/d/s"
      [] OTHER -> "/"

\* lstat: the type of the node itself.
Kind(n) ==
    CASE n \in {"/", "/o", "/data", "/data/d", "/data/d/s"} -> "dir"
      [] n \in {"/s", "/o/h", "/data/a", "/data/d/f", "/data/d/s/g"} -> "file"
      [] n \in {"/data/d/l", "/data/d/k"} -> "symlink"
      [] n = "/data/x" -> xKind
      [] OTHER -> "none"

\* Where a symbolic link points; a broken link points nowhere.
LinkTarget(n) ==
    CASE n = "/data/d/l" -> "/s"
      [] n = "/data/d/k" -> "/data/d"
      [] OTHER -> NoNode

DirList(n) ==
    CASE n = "/" -> <<"/data", "/o", "/s">>
      [] n = "/o" -> <<"/o/h">>
      [] n = "/data" -> <<"/data/a", "/data/d", "/data/x">>
      [] n = "/data/d" -> <<"/data/d/f", "/data/d/l", "/data/d/s", "/data/d/k">>
      [] n = "/data/d/s" -> <<"/data/d/s/g">>
      [] OTHER -> <<>>

Reverse(s) == [k \in 1..Len(s) |-> s[Len(s) + 1 - k]]

Exists(n) == Kind(n) # "none"

\* readdir: the entries of a directory, in the order the filesystem gives.
ReadDir(n) ==
    LET l == SelectSeq(DirList(n), Exists)
    IN  IF rev THEN Reverse(l) ELSE l

Range(s) == {s[k] : k \in DOMAIN s}

\* stat: symbolic links are followed.
Follow(n) == IF Kind(n) = "symlink" THEN LinkTarget(n) ELSE n

Child(dir, name) ==
    LET c == {m \in Range(ReadDir(dir)) : Name(m) = name}
    IN  IF c = {} THEN NoNode ELSE CHOOSE m \in c : TRUE

\* Path resolution by the operating system, component by component.
RECURSIVE Resolve(_, _)
Resolve(cur, comps) ==
    IF comps = <<>> THEN cur
    ELSE LET c == Head(comps)
             dir == Follow(cur)
         IN  IF c = "/" THEN Resolve("/", Tail(comps))
             ELSE IF Kind(dir) # "dir" THEN NoNode
             ELSE IF c = ".." THEN Resolve(Parent(dir), Tail(comps))
             ELSE Resolve(Child(dir, c), Tail(comps))

Cwd == "/"

data_directory == <<"data">>

IsAbsolute(p) == p # <<>> /\ Head(p) = "/"

\* Path::join: an absolute argument replaces the base.
Join(base, rel) == IF IsAbsolute(rel) THEN rel ELSE base \o rel

\* Path::is_file: the target, links followed, is a regular file.
is_file(p) == Kind(Follow(Resolve(Cwd, p))) = "file"

\* Path::is_dir: the target, links followed, is a directory.
is_dir_exists(p) == Exists(Resolve(Cwd, p))
is_dir(p) == Kind(Follow(Resolve(Cwd, p))) = "dir"

\* File::open: the node whose contents are read.
OpenNode(p) == Follow(Resolve(Cwd, p))

HasPrefix(p, base) ==
    Len(base) <= Len(p) /\ SubSeq(p, 1, Len(base)) = base

\* Path::strip_prefix, where it succeeds.
StripPrefix(p, base) == SubSeq(p, Len(base) + 1, Len(p))

-----------------------------------------------------------------------------
(* The inputs. *)

EntryPaths ==
    {<<"a">>, <<"d">>, <<"d", "f">>, <<"x">>, <<"..", "s">>, <<"/", "o">>}

RemovablePaths == {<<"a">>, <<"x">>, <<"d">>}

Entries ==
    [relative_path : EntryPaths, is_removed : {FALSE}]
      \cup [relative_path : RemovablePaths, is_removed : {TRUE}]

RECURSIVE SeqsUpTo(_, _)
SeqsUpTo(S, n) ==
    IF n = 0 THEN {<<>>}
    ELSE LET shorter == SeqsUpTo(S, n - 1)
         IN  shorter \cup {Append(s, x) : s \in shorter, x \in S}

Manifests == SeqsUpTo(Entries, MaxEntries)

TargetNames == {"absent", "", "data.grf"}

NoError == [kind |-> "None", path |-> <<>>, e |-> 0]

-----------------------------------------------------------------------------
(* Logging: init_logger and the log macros. *)

LevelOrder == <<"Off", "Error", "Warn", "Info", "Debug", "Trace">>

Rank(level) == CHOOSE k \in DOMAIN LevelOrder : LevelOrder[k] = level

\* init_logger: the level filter installed for this crate's module.
level_filter(v) == IF v THEN "Trace" ELSE "Warn"

LogEnabled(level) == Rank(level) <= Rank(level_filter(verbose))

Log(out, level, msg, cause) ==
    IF LogEnabled(level)
    THEN Append(out, [level |-> level, msg |-> msg, cause |-> cause])
    ELSE out

\* A panic message is written to stderr whatever the logger's level.
Panic(out, msg, cause) == Append(out, [level |-> "Panic", msg |-> msg, cause |-> cause])

PanicExitCode == 101

-----------------------------------------------------------------------------
(* The manifest parser, from its specification: a definition that enables   *)
(* GRF merging without naming a target GRF is rejected.                     *)

ValidDefinition == use_grf_merging => target_grf_name \notin {"absent", ""}

parse_patch_definition(readable) ==
    IF readable /\ ValidDefinition THEN "Ok" ELSE "Err"

\* Result::expect: the program goes on only with an Ok value.
ExpectSwallowing(result) == TRUE
Expect(result) == result = "Ok"

-----------------------------------------------------------------------------
(* The archive builder, from its specification. *)

\* begin: fails if the sink cannot be written, or on merge mode without a target.
ThorArchiveBuilderNew(sinkOk) == sinkOk /\ ValidDefinition

append_file_update_toc(t, cur, path, src) ==
    {d \in t : d.path # path}
      \cup {[path |-> path, kind |-> "Update", offset |-> cur, src |-> src]}

append_file_removal_toc(t, cur, path) ==
    {d \in t : d.path # path}
      \cup {[path |-> path, kind |-> "Removal", offset |-> cur, src |-> NoNode]}

-----------------------------------------------------------------------------
(* generate_patch_from_definition and append_directory_update. *)

\* The entry the for loop is at.
CurrentEntryReversed == manifest[Len(manifest) + 1 - i]
CurrentEntry == manifest[i]

\* The `continue` branch is taken for entries flagged as removed.
IsRemovalIfPresent(entry) ==
    entry.is_removed /\ Exists(Resolve(Cwd, Join(data_directory, entry.relative_path)))
IsRemoval(entry) == entry.is_removed

NativePath(entry) == Join(data_directory, entry.relative_path)

\* The path a single-file entry is archived under.
FileUpdatePathNative(entry) == NativePath(entry)
FileUpdatePath(entry) == entry.relative_path

\* The path a walked file is archived under.
DirUpdatePathInEntry(p) == StripPrefix(p, NativePath(CurrentEntry))
DirUpdatePath(p) == StripPrefix(p, data_directory)

\* The `?` operator: an error ends the function.
QuestionMarkContinue == "Loop"
QuestionMark == "Failed"

\* End of the function's scope: the builder it owns is dropped.
ScopeExitLeak(s) == s
ScopeExit(s) == IF s = "open" THEN "dropped" ELSE s

\* WalkDir yields a directory's contents right after the directory.
PushChildren(stack, children) == children \o stack

Call(op, path, src, ok) ==
    [op |-> op, path |-> path, src |-> src, e |-> i, ok |-> ok]

Access(op, path) == [e |-> i, op |-> op, path |-> path]

Fail(kind, path) ==
    /\ pc' = QuestionMark
    /\ err' = [kind |-> kind, path |-> path, e |-> i]
    /\ session' = ScopeExit(session)
    /\ walk' = <<>>

Init ==
    /\ manifest \in Manifests
    /\ use_grf_merging \in BOOLEAN
    /\ target_grf_name \in TargetNames
    /\ verbose \in BOOLEAN
    /\ xKind \in {"none", "symlink", "fifo"}
    /\ rev \in BOOLEAN
    /\ pc = "Parse"
    /\ i = 0
    /\ walk = <<>>
    /\ outputCreated = FALSE
    /\ session = "none"
    /\ calls = <<>>
    /\ toc = {}
    /\ cursor = 0
    /\ fsAccess = {}
    /\ err = NoError
    /\ reported = <<>>
    /\ successPrinted = FALSE
    /\ exitCode = -1

\* main, up to the call of generate_patch_from_definition.
ParseDefinition ==
    /\ pc = "Parse"
    /\ \E readable \in BOOLEAN :
         LET result == parse_patch_definition(readable)
             out == Log(reported, "Info", "Processing", NoError)
         IN  IF Expect(result)
             THEN /\ pc' = "Start"
                  /\ reported' = Log(Log(out, "Info", "GRF merging", NoError),
                                     "Info", "Checksums included", NoError)
                  /\ UNCHANGED <<err, exitCode>>
             ELSE /\ pc' = "Exited"
                  /\ err' = [kind |-> "Parse", path |-> <<>>, e |-> 0]
                  /\ reported' = Panic(out, "Failed to parse the patch definition", err')
                  /\ exitCode' = PanicExitCode
    /\ UNCHANGED <<defVars, i, walk, outputCreated, session, calls, toc, cursor,
                   fsAccess, successPrinted>>

\* File::create(output_path)?
CreateOutput ==
    /\ pc = "Start"
    /\ \E ok \in BOOLEAN :
         IF ok
         THEN /\ outputCreated' = TRUE
              /\ pc' = "Open"
              /\ UNCHANGED <<err, session, walk>>
         ELSE /\ Fail("Create", <<>>)
              /\ UNCHANGED outputCreated
    /\ UNCHANGED <<defVars, i, calls, toc, cursor, fsAccess, reported,
                   successPrinted, exitCode>>

\* ThorArchiveBuilder::new(output_file, ...)?
OpenSession ==
    /\ pc = "Open"
    /\ \E sinkOk \in BOOLEAN :
         IF ThorArchiveBuilderNew(sinkOk)
         THEN /\ session' = "open"
              /\ pc' = "Loop"
              /\ i' = 1
              /\ UNCHANGED <<err, walk>>
         ELSE /\ Fail("Session", <<>>)
              /\ UNCHANGED i
    /\ UNCHANGED <<defVars, outputCreated, calls, toc, cursor, fsAccess,
                   reported, successPrinted, exitCode>>

InLoop == pc = "Loop" /\ i \in 1..Len(manifest)

\* if entry.is_removed { append_file_removal(..); continue; }
AppendRemoval ==
    /\ InLoop
    /\ IsRemoval(CurrentEntry)
    /\ calls' = Append(calls, Call("removal", CurrentEntry.relative_path, NoNode, TRUE))
    /\ toc' = append_file_removal_toc(toc, cursor, CurrentEntry.relative_path)
    /\ i' = i + 1
    /\ UNCHANGED <<defVars, pc, walk, outputCreated, session, cursor,
                   fsAccess, err, reported, successPrinted, exitCode>>

\* if native_path.is_file() { File::open(native_path)?; append_file_update(..)?; }
AppendFile ==
    /\ InLoop
    /\ ~IsRemoval(CurrentEntry)
    /\ is_file(NativePath(CurrentEntry))
    /\ LET native == NativePath(CurrentEntry)
           path == FileUpdatePath(CurrentEntry)
           src == OpenNode(native)
       IN  \E outcome \in {"ok", "open_err", "append_err"} :
             /\ fsAccess' = fsAccess \cup {Access("stat", native), Access("open", native)}
             /\ CASE outcome = "ok" ->
                       /\ calls' = Append(calls, Call("update", path, src, TRUE))
                       /\ toc' = append_file_update_toc(toc, cursor, path, src)
                       /\ cursor' = cursor + 1
                       /\ i' = i + 1
                       /\ UNCHANGED <<pc, err, session, walk>>
                  [] outcome = "open_err" ->
                       /\ Fail("Open", native)
                       /\ UNCHANGED <<calls, toc, cursor, i>>
                  [] outcome = "append_err" ->
                       /\ calls' = Append(calls, Call("update", path, src, FALSE))
                       /\ Fail("Append", path)
                       /\ UNCHANGED <<toc, cursor, i>>
    /\ UNCHANGED <<defVars, outputCreated, reported, successPrinted,
                   exitCode>>

\* else if native_path.is_dir() { append_directory_update(..)?; }: the walker is made.
EnterDirectory ==
    /\ InLoop
    /\ ~IsRemoval(CurrentEntry)
    /\ ~is_file(NativePath(CurrentEntry))
    /\ is_dir(NativePath(CurrentEntry))
    /\ LET native == NativePath(CurrentEntry)
       IN  /\ walk' = <<[path |-> native, node |-> Resolve(Cwd, native), root |-> TRUE]>>
           /\ fsAccess' = fsAccess \cup {Access("stat", native)}
    /\ pc' = "Walk"
    /\ UNCHANGED <<defVars, i, outputCreated, session, calls, toc, cursor,
                   err, reported, successPrinted, exitCode>>

\* else { return Err(anyhow!("Path '{}' is invalid or does not exist", ..)); }
InvalidPath ==
    /\ InLoop
    /\ ~IsRemoval(CurrentEntry)
    /\ ~is_file(NativePath(CurrentEntry))
    /\ ~is_dir(NativePath(CurrentEntry))
    /\ fsAccess' = fsAccess \cup {Access("stat", NativePath(CurrentEntry))}
    /\ Fail("InvalidPath", NativePath(CurrentEntry))
    /\ UNCHANGED <<defVars, i, outputCreated, calls, toc, cursor,
                   reported, successPrinted, exitCode>>

\* What the walker reads as a directory: directories, and the root if it links to one.
WalksInto(entry) ==
    \/ Kind(entry.node) = "dir"
    \/ entry.root /\ Kind(Follow(entry.node)) = "dir"

ChildEntries(entry) ==
    LET l == ReadDir(Follow(entry.node))
    IN  [k \in 1..Len(l) |->
           [path |-> Append(entry.path, Name(l[k])), node |-> l[k], root |-> FALSE]]

\* entry.file_type().is_file(), with follow_links(false).
IsRegular(entry) == Kind(entry.node) = "file"

\* One iteration of `for entry in walker`.
WalkStep ==
    /\ pc = "Walk"
    /\ walk # <<>>
    /\ LET entry == Head(walk)
           rest == Tail(walk)
       IN  IF WalksInto(entry)
           THEN \E ok \in BOOLEAN :
                  /\ fsAccess' = fsAccess \cup {Access("walk", entry.path)}
                  /\ IF ok
                     THEN /\ walk' = PushChildren(rest, ChildEntries(entry))
                          /\ UNCHANGED <<pc, err, session>>
                     ELSE Fail("Walk", entry.path)
                  /\ UNCHANGED <<calls, toc, cursor>>
           ELSE IF ~IsRegular(entry)
           THEN /\ walk' = rest
                /\ fsAccess' = fsAccess \cup {Access("walk", entry.path)}
                /\ UNCHANGED <<pc, err, session, calls, toc, cursor>>
           ELSE IF ~HasPrefix(entry.path, data_directory)
           THEN /\ Fail("StripPrefix", entry.path)
                /\ fsAccess' = fsAccess \cup {Access("walk", entry.path)}
                /\ UNCHANGED <<calls, toc, cursor>>
           ELSE LET path == DirUpdatePath(entry.path)
                    src == OpenNode(entry.path)
                IN  \E outcome \in {"ok", "open_err", "append_err"} :
                      /\ fsAccess' = fsAccess \cup {Access("walk", entry.path),
                                                     Access("open", entry.path)}
                      /\ CASE outcome = "ok" ->
                                /\ calls' = Append(calls, Call("update", path, src, TRUE))
                                /\ toc' = append_file_update_toc(toc, cursor, path, src)
                                /\ cursor' = cursor + 1
                                /\ walk' = rest
                                /\ UNCHANGED <<pc, err, session>>
                           [] outcome = "open_err" ->
                                /\ Fail("Open", entry.path)
                                /\ UNCHANGED <<calls, toc, cursor>>
                           [] outcome = "append_err" ->
                                /\ calls' = Append(calls, Call("update", path, src, FALSE))
                                /\ Fail("Append", path)
                                /\ UNCHANGED <<toc, cursor>>
    /\ UNCHANGED <<defVars, i, outputCreated, reported, successPrinted,
                   exitCode>>

\* The walker is exhausted: append_directory_update returns Ok(()).
WalkEnd ==
    /\ pc = "Walk"
    /\ walk = <<>>
    /\ pc' = "Loop"
    /\ i' = i + 1
    /\ UNCHANGED <<defVars, walk, outputCreated, session, calls, toc, cursor, fsAccess,
                   err, reported, successPrinted, exitCode>>

\* The loop is exhausted: Ok(()) is returned and the builder goes out of scope.
ReturnOk ==
    /\ pc = "Loop"
    /\ i > Len(manifest)
    /\ pc' = "Done"
    /\ session' = ScopeExit(session)
    /\ UNCHANGED <<defVars, i, walk, outputCreated, calls, toc, cursor,
                   fsAccess, err, reported, successPrinted, exitCode>>

\* Exit status of a main that returns normally.
MainReturnStatus == 0

\* main: match result { Err(e) => log::error!(..), Ok(()) => println!(..) }
Report ==
    /\ pc \in {"Done", "Failed"}
    /\ IF pc = "Failed"
       THEN /\ reported' = Log(reported, "Error",
                               "Failed to generate patch from definition", err)
            /\ UNCHANGED successPrinted
       ELSE /\ successPrinted' = TRUE
            /\ UNCHANGED reported
    /\ pc' = "Exited"
    /\ exitCode' = MainReturnStatus
    /\ UNCHANGED <<defVars, i, walk, outputCreated, session, calls, toc, cursor,
                   fsAccess, err>>

Next ==
    \/ ParseDefinition
    \/ CreateOutput
    \/ OpenSession
    \/ AppendRemoval
    \/ AppendFile
    \/ EnterDirectory
    \/ InvalidPath
    \/ WalkStep
    \/ WalkEnd
    \/ ReturnOk
    \/ Report

Spec == Init /\ [][Next]_vars

TypeOK ==
    /\ pc \in {"Parse", "Start", "Open", "Loop", "Walk", "Done", "Failed", "Exited"}
    /\ i \in 0..(Len(manifest) + 1)
    /\ session \in {"none", "open", "dropped"}
    /\ exitCode \in {-1, MainReturnStatus, PanicExitCode}

-----------------------------------------------------------------------------
(* What the manifest resolves to, computed from the manifest and the        *)
(* filesystem alone.                                                        *)

Op(op, path, src) == [op |-> op, path |-> path, src |-> src]

Proj(cs) == [k \in 1..Len(cs) |-> Op(cs[k].op, cs[k].path, cs[k].src)]

IsPrefix(s, t) == Len(s) <= Len(t) /\ SubSeq(t, 1, Len(s)) = s

\* The regular files below a node, depth first, in listing order.
RECURSIVE ListFiles(_, _), ListAll(_, _)
ListAll(nodes, path) ==
    IF nodes = <<>> THEN <<>>
    ELSE ListFiles(Head(nodes), Append(path, Name(Head(nodes))))
           \o ListAll(Tail(nodes), path)
ListFiles(node, path) ==
    IF Kind(node) = "file" THEN <<[path |-> path, src |-> node]>>
    ELSE IF Kind(node) = "dir" THEN ListAll(ReadDir(node), path)
    ELSE <<>>

UnderDataDirectory(f) == HasPrefix(f.path, data_directory)

ResolvedOps(entry) ==
    LET native == Join(data_directory, entry.relative_path)
        node == Follow(Resolve(Cwd, native))
        files == SelectSeq(ListFiles(node, native), UnderDataDirectory)
    IN  IF entry.is_removed THEN <<Op("removal", entry.relative_path, NoNode)>>
        ELSE IF Kind(node) = "file" THEN <<Op("update", entry.relative_path, node)>>
        ELSE IF Kind(node) = "dir"
        THEN [k \in 1..Len(files) |->
                Op("update", SubSeq(files[k].path, 2, Len(files[k].path)), files[k].src)]
        ELSE <<>>

RECURSIVE ExpectedThrough(_)
ExpectedThrough(k) ==
    IF k = 0 THEN <<>> ELSE ExpectedThrough(k - 1) \o ResolvedOps(manifest[k])

Min(a, b) == IF a <= b THEN a ELSE b

\* Number of manifest entries the loop has gone past.
Completed == IF i = 0 THEN 0 ELSE i - 1

CallsOf(j) == {k \in 1..Len(calls) : calls[k].e = j}

RECURSIVE IsUnder(_, _)
IsUnder(n, d) ==
    IF n = d THEN TRUE
    ELSE IF n = "/" THEN FALSE
    ELSE IsUnder(Parent(n), d)

\* The names leading from the data directory down to a node below it.
RECURSIVE PathFromData(_)
PathFromData(n) ==
    IF n \in {"/data", "/"} THEN <<>> ELSE Append(PathFromData(Parent(n)), Name(n))

FilesBelow(d) == {f \in Nodes : Kind(f) = "file" /\ f # d /\ IsUnder(f, d)}

InvalidTarget(entry) ==
    Kind(Follow(Resolve(Cwd, Join(data_directory, entry.relative_path))))
        \notin {"file", "dir"}

-----------------------------------------------------------------------------
(* The claims. *)

\* C1: the encoder calls are, in order, the concatenation in manifest order of
\* each entry's resolved operations (one removal, one update, or a directory's
\* regular files in traversal order): at every moment the calls made extend the
\* operations of the entries already passed and are a prefix of the operations
\* up to the current entry, and on Done they are the whole concatenation.
C1_ManifestOrder ==
    pc \in {"Loop", "Walk", "Done", "Failed"} /\ i >= 1 =>
        /\ IsPrefix(ExpectedThrough(Completed), Proj(calls))
        /\ IsPrefix(Proj(calls), ExpectedThrough(Min(i, Len(manifest))))
        /\ pc = "Done" => Proj(calls) = ExpectedThrough(Len(manifest))

C1_Witness ==
    /\ pc = "Done"
    /\ Len(manifest) = 2
    /\ manifest[1] = [relative_path |-> <<"d">>, is_removed |-> FALSE]
    /\ manifest[2].is_removed
    /\ Len(calls) = 3
    /\ calls[3].op = "removal"

C3_InvalidDefinitionWritesNothing ==
    use_grf_merging /\ target_grf_name \in {"absent", ""} =>
        /\ ~outputCreated
        /\ session = "none"
        /\ calls = <<>>
        /\ toc = {}
        /\ pc \in {"Parse", "Exited"}
        /\ pc = "Exited" => err.kind = "Parse" /\ ~successPrinted

C3_Witness ==
    /\ use_grf_merging
    /\ target_grf_name = ""
    /\ manifest # <<>>
    /\ pc = "Exited"
    /\ err.kind = "Parse"

\* C4: a failure ends generation at once: the step that fails moves to Failed,
\* keeps everything appended before it, and after it no entry is resolved, no
\* encoder call is made and the table of contents is left as it was.
C4_FailFast ==
    [][/\ err.kind # "None" =>
            /\ calls' = calls
            /\ toc' = toc
            /\ cursor' = cursor
            /\ i' = i
            /\ fsAccess' = fsAccess
            /\ walk' = walk
            /\ err' = err
            /\ pc' = "Exited"
       /\ err.kind = "None" /\ err'.kind \notin {"None", "Parse"} =>
            /\ pc' = "Failed"
            /\ IsPrefix(calls, calls')
            /\ toc' = toc
            /\ cursor' = cursor
            /\ i' = i]_vars

C4_Witness ==
    /\ pc = "Exited"
    /\ err.kind = "Open"
    /\ err.e = 2
    /\ Len(calls) >= 2
    /\ Cardinality(toc) >= 2

\* C5: an entry flagged as removed causes no filesystem access, is never the
\* entry generation fails at, and contributes exactly one call, the removal of
\* its relative_path, whatever the data directory holds at that path.
C5_RemovalNeedsNoTarget ==
    \A j \in 1..Len(manifest) :
        manifest[j].is_removed =>
            /\ \A a \in fsAccess : a.e # j
            /\ err.e # j
            /\ j >= i => CallsOf(j) = {}
            /\ j < i /\ i >= 1 =>
                 /\ Cardinality(CallsOf(j)) = 1
                 /\ \A k \in CallsOf(j) :
                      /\ calls[k].op = "removal"
                      /\ calls[k].path = manifest[j].relative_path
                      /\ calls[k].ok

C5_Witness ==
    /\ pc = "Done"
    /\ xKind \in {"none", "symlink"}
    /\ Len(manifest) = 2
    /\ manifest[1] = [relative_path |-> <<"x">>, is_removed |-> TRUE]
    /\ manifest[2] = [relative_path |-> <<"d">>, is_removed |-> TRUE]
    /\ Len(calls) = 2
    /\ fsAccess = {}

\* C6: a non-removed entry whose target does not exist or is neither a regular
\* file nor a directory ends generation with the invalid-path error naming the
\* target, with nothing appended for it; and the invalid-path error arises only
\* for such an entry.
C6_InvalidPath ==
    /\ \A j \in 1..Len(manifest) :
         ~manifest[j].is_removed /\ InvalidTarget(manifest[j]) =>
             /\ i <= j
             /\ CallsOf(j) = {}
             /\ i = j /\ pc # "Loop" =>
                  /\ pc \in {"Failed", "Exited"}
                  /\ err = [kind |-> "InvalidPath",
                            path |-> Join(data_directory, manifest[j].relative_path),
                            e |-> j]
    /\ err.kind = "InvalidPath" =>
         /\ err.e \in 1..Len(manifest)
         /\ ~manifest[err.e].is_removed
         /\ InvalidTarget(manifest[err.e])

C6_Witness ==
    /\ pc = "Failed"
    /\ err.kind = "InvalidPath"
    /\ xKind = "symlink"
    /\ err.path = <<"data", "x">>
    /\ Len(calls) = 1

\* C7: every error of patch generation ends the process with a non-zero exit
\* status, the cause reported and no success message.
C7_ErrorsExitNonZero ==
    pc = "Exited" /\ err.kind # "None" =>
        /\ exitCode # 0
        /\ ~successPrinted
        /\ \E k \in 1..Len(reported) : reported[k].cause = err

\* C8: no file outside the data directory is ever opened and appended.
C8_NoEscape ==
    /\ \A k \in 1..Len(calls) :
         calls[k].op = "update" => IsUnder(calls[k].src, "/data")
    /\ \A a \in fsAccess :
         a.op = "open" => IsUnder(OpenNode(a.path), "/data")

\* C9: once a directory entry has been processed, the updates appended for it
\* are exactly the regular files below the directory, each once, under its path
\* relative to the data directory; links and sub-directories are not appended.
C9_DirectoryExpansion ==
    \A j \in 1..Len(manifest) :
        LET d == Resolve(Cwd, Join(data_directory, manifest[j].relative_path))
        IN  ~manifest[j].is_removed /\ Kind(d) = "dir" /\ j < i =>
                /\ {calls[k].path : k \in CallsOf(j)}
                     = {PathFromData(f) : f \in FilesBelow(d)}
                /\ Cardinality(CallsOf(j)) = Cardinality(FilesBelow(d))
                /\ \A k \in CallsOf(j) :
                     /\ calls[k].op = "update"
                     /\ calls[k].ok
                     /\ Kind(calls[k].src) = "file"
                     /\ calls[k].path = PathFromData(calls[k].src)

C9_Witness ==
    /\ pc = "Done"
    /\ manifest = <<[relative_path |-> <<"d">>, is_removed |-> FALSE]>>
    /\ {calls[k].path : k \in 1..Len(calls)} = {<<"d", "f">>, <<"d", "s", "g">>}

\* C10: after a successful run on a definition without removed entries, the
\* table of contents holds one descriptor per distinct resolved path, and it is
\* the descriptor of the last operation resolved for that path.
C10_LastWriteWins ==
    pc = "Done" /\ (\A j \in 1..Len(manifest) : ~manifest[j].is_removed) =>
        LET exp == ExpectedThrough(Len(manifest))
            Last(p) == CHOOSE k \in 1..Len(exp) :
                          /\ exp[k].path = p
                          /\ \A m \in (k + 1)..Len(exp) : exp[m].path # p
        IN  /\ {d.path : d \in toc} = {exp[k].path : k \in 1..Len(exp)}
            /\ Cardinality(toc) = Cardinality({exp[k].path : k \in 1..Len(exp)})
            /\ \A d \in toc :
                 /\ d.kind = "Update"
                 /\ d.src = exp[Last(d.path)].src
                 /\ d.offset = Last(d.path) - 1

C10_Witness ==
    /\ pc = "Done"
    /\ manifest = <<[relative_path |-> <<"d", "f">>, is_removed |-> FALSE],
                    [relative_path |-> <<"d">>, is_removed |-> FALSE]>>
    /\ Cardinality(toc) = 2
    /\ \E d \in toc : d.path = <<"d", "f">> /\ d.offset >= 1

====
